---- MODULE Spec2Model ----
(***************************************************************************)
(* Model of solartimes (sunrise_sunset.c, main.c): Julian Day arithmetic,  *)
(* angle normalisation, the solar ephemeris chain, the two-pass hour-angle *)
(* solver and the degrees-to-DMS conversion.                               *)
(*                                                                         *)
(* Number representation.  The C code computes in double.  The model       *)
(* keeps every quantity as an integer count of a fixed unit:               *)
(*   - day fractions and Julian Days in half days (all values used are     *)
(*     multiples of 0.5 and below 2^53, where double arithmetic is exact); *)
(*   - NormalizeDegrees angles in quarter degrees (exact in double too);   *)
(*   - in the solar chain, degrees in 10^-5 deg, radians and pure numbers  *)
(*     in 10^-6, the century time in 10^-9 century, minutes of time in     *)
(*     10^-4 min and Julian Days in units of two minutes; products and     *)
(*     quotients truncate toward zero, and NaN is a value of its own that  *)
(*     every operation propagates;                                         *)
(*   - the argument of D2DMS as the double nearest to a whole number of    *)
(*     thousandths of an arc second, its rounding error carried exactly.   *)
(***************************************************************************)
EXTENDS Integers, Sequences, FiniteSets, TLC

VARIABLES
    op,         \* which routine the current run exercises
    cal,        \* JulianDayTests: the calendar date handed to JulianDayEx
    hf,         \* 1 when dayFrac carries .5 (noon), 0 for .0 (midnight)
    elapsed,    \* days counted one by one since -4712-01-01
    jdr,        \* the record computed by JulianDayEx for cal
    prevCal,    \* the earlier date handed to JulianDayEx just before cal
    prev        \* the record computed for prevCal

VARIABLES
    binade,     \* NormalizeDegrees: 0, or the exponent e of a large argument
    degIn,      \* NormalizeDegrees: the argument
    degrees,    \* NormalizeDegrees: the local being reduced
    pcN,        \* NormalizeDegrees: "while1", "while2" or "return"
    iters       \* NormalizeDegrees: loop iterations run so far

VARIABLES
    args,       \* SunRiseTest: [jd, latitude, angle] of the two calls
    pcS,        \* SunRiseTest: which UTCForSolarAngle pass runs next
    riseFirst,  \* rise call: locals of the first UTCForSolarAngleAux pass
    riseSecond, \* rise call: locals of the second pass
    sunRise,    \* rise call: the value returned
    setFirst,   \* set call: locals of the first pass
    setSecond,  \* set call: locals of the second pass
    sunSet      \* set call: the value returned

VARIABLES
    eocIn,      \* equation of center: [T, M] century time and mean anomaly
    eoc         \* equation of center: the angles used and the result

varsJD == <<cal, hf, elapsed, jdr, prevCal, prev>>

varsN == <<binade, degIn, degrees, pcN, iters>>

varsS == <<args, pcS, riseFirst, riseSecond, sunRise, setFirst, setSecond, sunSet>>

VARIABLES
    dmsIn,      \* D2DMS: the argument, [sign, deg, ms] for sign*(deg + ms/3600000)
    dms         \* D2DMS: [degrees, minutes, seconds], seconds in thousandths

varsE == <<eocIn, eoc>>

VARIABLES
    doyIn,      \* day of year: the date [y, m, d] converted by JulianDayEx
    doy         \* day of year: the locals and result of DayOfYearFromJulianDay

varsD == <<dmsIn, dms>>

varsY == <<doyIn, doy>>

vars == <<op, varsJD, varsN, varsS, varsE, varsD, varsY>>

(***************************************************************************)
(* C arithmetic helpers                                                    *)
(***************************************************************************)
\* F applied to the value of e, e being evaluated once (a C local)
With(e, F(_)) == CHOOSE r \in {F(v) : v \in {e}} : TRUE

Abs(x) == IF x < 0 THEN -x ELSE x

Sgn(x) == IF x < 0 THEN -1 ELSE IF x > 0 THEN 1 ELSE 0

\* C integer division: truncation toward zero
CDiv(x, d) == With(x, LAMBDA v : Sgn(v) * Sgn(d) * (Abs(v) \div Abs(d)))

\* C integer remainder: sign of the dividend
CMod(x, d) == With(x, LAMBDA v : v - d * CDiv(v, d))

\* floor(p/q) for q > 0, as floor() of a double quotient
Floor(p, q) == p \div q

(***************************************************************************)
(* JulianDayEx (sunrise_sunset.c:331-365).  dayFrac2 is dayFrac in half    *)
(* days; the returned jd2 is the Julian Day in half days.                  *)
(***************************************************************************)
GregorianYear == 1582

\* lines 334-353: the local flag JulianDay (1: Julian calendar, 0: Gregorian)
JulianDayFlagAfter15(y, m, dayFrac2) ==
    IF y > GregorianYear THEN 0
    ELSE IF y = GregorianYear
         THEN IF m > 11 THEN 0
              ELSE IF m = 10
                   THEN (IF dayFrac2 > 2 * 15 THEN 0 ELSE 1)
                   ELSE 1
         ELSE 1

JulianDayFlag(y, m, dayFrac2) ==
    IF y > GregorianYear THEN 0
    ELSE IF y = GregorianYear
         THEN IF m > 11 THEN 0
              ELSE IF m = 10
                   THEN (IF dayFrac2 >= 2 * 15 THEN 0 ELSE 1)
                   ELSE 1
         ELSE 1

\* lines 355-364 with the January/February shift left out
MeeusNoShift(y, m, dayFrac2, flag) ==
    LET a == CDiv(y, 100)
        b == IF flag = 1 THEN 0 ELSE 2 - a + CDiv(a, 4)
    IN  [JulianDay |-> flag,
         b  |-> b,
         jd2 |-> 2 * Floor(1461 * (y + 4716), 4)
                 + 2 * Floor(306001 * (m + 1), 10000)
                 + dayFrac2 + 2 * b - 3049]

\* lines 355-364: month shift, a, b and the day count
\*   365.25 = 1461/4, 30.6001 = 306001/10000, 1524.5 = 3049 half days
Meeus(y, m, dayFrac2, flag) ==
    LET y1 == IF m <= 2 THEN y - 1 ELSE y
        m1 == IF m <= 2 THEN m + 12 ELSE m
        a  == CDiv(y1, 100)
        b  == IF flag = 1 THEN 0 ELSE 2 - a + CDiv(a, 4)
    IN  [JulianDay |-> flag,
         b  |-> b,
         jd2 |-> 2 * Floor(1461 * (y1 + 4716), 4)
                 + 2 * Floor(306001 * (m1 + 1), 10000)
                 + dayFrac2 + 2 * b - 3049]

JulianDayEx(y, m, dayFrac2) == Meeus(y, m, dayFrac2, JulianDayFlag(y, m, dayFrac2))

(***************************************************************************)
(* DayOfYearFromJulianDay (sunrise_sunset.c:77-106).  jd is in half days;  *)
(* the decimal constants are cleared of their fractions: 36524.25 is       *)
(* 146097/4, 365.25 is 1461/4, 122.1 is 1221/10 and 30.6001 is             *)
(* 306001/10000.  No quotient taken here comes nearer to a whole number    *)
(* than 1/306001 without being one, so floor in double gives the same.     *)
(***************************************************************************)
\* lines 77-81
IsLeapYear(year) ==
    (0 = CMod(year, 4) /\ 0 # CMod(year, 100)) \/ 0 = CMod(year, 400)

\* lines 84-106: the locals year, month, day and the result n (in half days)
DayOfYearFromJulianDay(jd2) ==
    LET z     == Floor(jd2 + 1, 2)
        f2    == (jd2 + 1) - 2 * z
        alpha == Floor(4 * z - 7468865, 146097)
        b     == IF z >= 2299161
                 THEN z + 1524 + 1 + alpha - Floor(alpha, 4)
                 ELSE z + 1524
        c     == Floor(20 * b - 2442, 7305)
        d     == Floor(1461 * c, 4)
        e     == Floor(10000 * (b - d), 306001)
        day   == b - d - Floor(306001 * e, 10000)
        month == IF e < 14 THEN e - 1 ELSE e - 13
        year  == IF month > 2 THEN c - 4716 ELSE c - 4715
        n     == Floor(275 * month, 9)
                 - (IF IsLeapYear(year) THEN 1 ELSE 2) * Floor(month + 9, 12)
                 + day - 30
    IN  [year |-> year, month |-> month, day2 |-> 2 * day + f2, n2 |-> 2 * n + f2]

(***************************************************************************)
(* NormalizeDegrees (sunrise_sunset.c:118-129).  Angles here are in        *)
(* quarter degrees, so 360.0 is 1440 units and the arithmetic is exact.    *)
(***************************************************************************)
QuarterDeg(d) == 4 * d

\* line 120: the first loop's test
AboveTurn(d) == d > QuarterDeg(360)

\* line 124: the second loop's test
BelowZero(d) == d < 0

(***************************************************************************)
(* NormalizeDegrees on a large argument.  A double of magnitude            *)
(* (2^52 + k) * 2^e degrees, 0 <= k < 2^52, has the doubles k - 1 and      *)
(* k + 1 for neighbours: the spacing is 2^e degrees.  Such a value is kept *)
(* as the exponent e and the signed offset k (positive for a positive      *)
(* value, negative for a negative one, never 0 here); e = 0 stands for the *)
(* small arguments above, counted in quarter degrees.                      *)
(***************************************************************************)
\* 360.0 in spacings of 2^e degrees, rounded to nearest as the subtraction
\* and the addition round (e > 4: no tie)
Rounded360(e) == (360 + 2^(e - 1)) \div 2^e

\* line 120 for either kind of value
AboveTurnAt(d, e) == IF e = 0 THEN AboveTurn(d) ELSE d > 0

\* line 124 for either kind of value
BelowZeroAt(d, e) == IF e = 0 THEN BelowZero(d) ELSE d < 0

\* line 122: degrees -= 360.0
Minus360(d, e) == IF e = 0 THEN d - QuarterDeg(360) ELSE d - Rounded360(e)

\* line 126: degrees += 360.0
Plus360(d, e) == IF e = 0 THEN d + QuarterDeg(360) ELSE d + Rounded360(e)

(***************************************************************************)
(* Fixed-point arithmetic standing for double arithmetic in the solar      *)
(* routines.  Units: degrees in 10^-5 deg, radians and pure numbers in     *)
(* 10^-6, century time in 10^-9 century, minutes in 10^-4 min, Julian Days *)
(* in 1/720 day (two minutes).  Source constants are kept to the unit's    *)
(* resolution.  NaN is a value of its own that every operation propagates. *)
(***************************************************************************)
One == 10^6

NaN == -(2^30) - 12345

IsNaN(x) == x = NaN

\* x*y / K^2 truncated, without leaving 32 bits (K <= 10^4)
MulKV(x, y, K) ==
    LET a  == Abs(x)
        b  == Abs(y)
        a1 == a \div K
        a0 == a % K
        b1 == b \div K
        b0 == b % K
        p  == a1 * b0
        q  == a0 * b1
    IN  Sgn(x) * Sgn(y) *
        (a1 * b1 + (p \div K) + (q \div K)
            + ((p % K) + (q % K) + ((a0 * b0) \div K)) \div K)

MulK(x, y, K) == With(<<x, y>>, LAMBDA p : MulKV(p[1], p[2], K))

\* x*y for two 10^-6 quantities
Mul(x, y) == MulK(x, y, 1000)

\* x/y for two 10^-6 quantities, |y| <= 2; a quotient beyond +-2000 is
\* returned as +-2000 (only its being outside [-1, 1] matters), x/0 likewise
DivV(x, y) ==
    LET a  == Abs(x)
        b  == Abs(y)
        sg == Sgn(x) * (IF y < 0 THEN -1 ELSE 1)
    IN  IF b = 0 THEN (IF a = 0 THEN NaN ELSE sg * 2000 * One)
        ELSE IF a \div b >= 2000 THEN sg * 2000 * One
        ELSE LET r1 == (a % b) * 1000
                 r2 == (r1 % b) * 1000
             IN  sg * ((a \div b) * One + (r1 \div b) * 1000 + (r2 \div b))

Div(x, y) == With(<<x, y>>, LAMBDA p : DivV(p[1], p[2]))

(***************************************************************************)
(* libm: sin, cos, tan, asin, acos on 10^-6 radians                        *)
(***************************************************************************)
Pi == 3141593
TwoPi == 2 * Pi
HalfPi == Pi \div 2

\* sin on [0, pi/2]: the Taylor series through x^11
SinSeries(x) ==
    With(Mul(x, x), LAMBDA x2 :
        LET t5 == One - (x2 \div 110)
            t4 == One - (Mul(x2, t5) \div 72)
            t3 == One - (Mul(x2, t4) \div 42)
            t2 == One - (Mul(x2, t3) \div 20)
            t1 == One - (Mul(x2, t2) \div 6)
        IN  Mul(x, t1))

SinV(x) ==
    IF IsNaN(x) THEN NaN
    ELSE LET r == x % TwoPi
             t == IF r > Pi THEN r - TwoPi ELSE r
             u == Abs(t)
             v == IF u > HalfPi THEN Pi - u ELSE u
         IN  Sgn(t) * SinSeries(v)

Sin(x) == With(x, LAMBDA v : SinV(v))

Cos(x) == With(x, LAMBDA v : IF IsNaN(v) THEN NaN ELSE SinV(v + HalfPi))

Tan(x) == With(x, LAMBDA v : IF IsNaN(v) THEN NaN ELSE Div(SinV(v), Cos(v)))

\* the angle in [lo, hi] whose cosine is c, by bisection (cos decreases on [0, pi])
RECURSIVE AcosBisect(_, _, _)
AcosBisect(c, lo, hi) ==
    IF hi - lo <= 1 THEN lo
    ELSE With((lo + hi) \div 2, LAMBDA mid :
             IF SinV(mid + HalfPi) > c THEN AcosBisect(c, mid, hi)
                                      ELSE AcosBisect(c, lo, mid))

AcosV(c) ==
    IF IsNaN(c) \/ c < -One \/ c > One THEN NaN
    ELSE IF c = One THEN 0
    ELSE IF c = -One THEN Pi
    ELSE AcosBisect(c, 0, Pi)

\* acos: NaN outside [-1, 1]
Acos(c) == With(c, LAMBDA v : AcosV(v))

\* asin: NaN outside [-1, 1]
Asin(s) == With(s, LAMBDA v : IF IsNaN(AcosV(v)) THEN NaN ELSE HalfPi - AcosV(v))

(***************************************************************************)
(* Unit conversions (sunrise_sunset.c:35-61)                               *)
(***************************************************************************)
\* DEG2RAD: 10^-5 deg -> 10^-6 rad, x * (pi/180)
DEG2RAD(x) ==
    With(x, LAMBDA v : IF IsNaN(v) THEN NaN ELSE CDiv(MulKV(v, 174532925, 10^4), 10))

\* RAD2DEG: 10^-6 rad -> 10^-5 deg, x * (180/pi)
RAD2DEG(x) == With(x, LAMBDA v : IF IsNaN(v) THEN NaN ELSE MulKV(v, 572957795, 10^4))

\* DEG2MIN: 10^-5 deg -> 10^-4 min, x * 4.0
DEG2MIN(x) == With(x, LAMBDA v : IF IsNaN(v) THEN NaN ELSE CDiv(4 * v, 10))

sind(x) == Sin(DEG2RAD(x))

cosd(x) == Cos(DEG2RAD(x))

tand(x) == Tan(DEG2RAD(x))

(***************************************************************************)
(* Century time (sunrise_sunset.c:63-75)                                   *)
(***************************************************************************)
JdUnit == 1440 \div 2

JAN_1_2000_JD == 2451545

DAYS_IN_CENTURY == 36525

\* (jd - 2451545.0) / 36525.0, in 10^-9 century:
\*   d * 10^9 / (720 * 36525) = d * 500000 / 13149
JulianCenturyFromJulianDayV(jd) ==
    IF IsNaN(jd) THEN NaN
    ELSE LET d  == jd - JAN_1_2000_JD * JdUnit
             a  == Abs(d)
             n  == (DAYS_IN_CENTURY * JdUnit) \div 2000
             r1 == (a % n) * 1000
             r2 == (r1 % n) * 500
         IN  Sgn(d) * ((a \div n) * 500000 + (r1 \div n) * 500 + (r2 \div n))

JulianCenturyFromJulianDay(jd) == With(jd, LAMBDA v : JulianCenturyFromJulianDayV(v))

\* T*x in x's unit, for the small polynomial terms (T taken to 10^-6)
TimesT(T, x) == Mul(CDiv(T, 1000), x)

\* T*x in 10^-5 deg for x in 10^-4 deg per century
TimesTDeg(T, x) == MulK(T, x, 10^4)

(***************************************************************************)
(* Solar ephemeris (sunrise_sunset.c:108-285).  T is the century time.     *)
(***************************************************************************)
\* p.147, 22.2: arc seconds in 10^-6, the result in 10^-5 deg
MeanObliquityEcliptic(T) ==
    LET arcSeconds == 21448000 - TimesT(T, 46815000 + TimesT(T, 590 - TimesT(T, 1813)))
        minutes    == 26000000 + CDiv(arcSeconds, 60)
    IN  CDiv(23000000 + CDiv(minutes, 60), 10)

\* 25.2: 280.46646 + T * (36000.76983 + T * 0.0003032)
GeometricMeanLongitudeSun(T) ==
    28046646 + TimesTDeg(T, 360007698 + TimesT(T, 3))

\* 25.3: 357.52911 + T * (35999.05029 - T * 0.0001537)
GeometricMeanAnomalySun(T) ==
    35752911 + TimesTDeg(T, 359990503 - TimesT(T, 2))

\* 25.4, in 10^-9: 0.016708634 - T * (0.000042037 + T * 0.0000001267)
EccentricityEarth(T) ==
    16708634 - TimesT(T, 42037 + TimesT(T, 127))

\* lines 155-160 as written: mrad, then mrad += mrad, then mrad += mrad again
SineAngles(meanAnomalySun) ==
    With(DEG2RAD(meanAnomalySun), LAMBDA mrad :
        LET mrad2 == mrad + mrad
            mrad3 == mrad2 + mrad2
        IN  <<mrad, mrad2, mrad3>>)

\* p.164: the angles handed to the three sines and the result c (10^-5 deg)
EquationOfCenterSunEx(T, meanAnomalySun) ==
    With(SineAngles(meanAnomalySun), LAMBDA angles :
        LET sinm  == Sin(angles[1])
            sin2m == Sin(angles[2])
            sin3m == Sin(angles[3])
            c     == Mul(1914602 - TimesT(T, 4817 + TimesT(T, 14)), sinm)
                     + Mul(19993 - TimesT(T, 101), sin2m)
                     + Mul(289, sin3m)
        IN  [angles |-> angles, c |-> CDiv(c, 10)])

EquationOfCenterSun(T) ==
    EquationOfCenterSunEx(T, GeometricMeanAnomalySun(T))

TrueLongitudeSun(T) ==
    GeometricMeanLongitudeSun(T) + EquationOfCenterSun(T).c

\* 125.04 - 1934.136 * T
Omega(T) == 12504000 - TimesTDeg(T, 19341360)

OmegaRad(T) == DEG2RAD(Omega(T))

\* trueLongitude - 0.000569 - 0.00478 * sin(omegaRad)
ApparentLongitudeSunEx(T, omegaRad) ==
    TrueLongitudeSun(T) - 57 - Mul(478, Sin(omegaRad))

\* 25.8: moe + 0.00256 * cos(omegaRad)
ObliquityCorrectionEx(T, omegaRad) ==
    MeanObliquityEcliptic(T) + Mul(256, Cos(omegaRad))

ObliquityCorrection(T) == ObliquityCorrectionEx(T, OmegaRad(T))

\* 25.7: asin(sind(oc) * sind(al))
SunDeclinationRad(T) ==
    IF IsNaN(T) THEN NaN
    ELSE With(OmegaRad(T), LAMBDA omegaRad :
             LET oc == ObliquityCorrectionEx(T, omegaRad)
                 al == ApparentLongitudeSunEx(T, omegaRad)
             IN  Asin(Mul(sind(oc), sind(al))))

\* 28.3, in 10^-4 min; eRad is summed in 10^-9 rad
EquationOfTimeV(T) ==
    With(<<tand(CDiv(ObliquityCorrection(T), 2)),
           EccentricityEarth(T),
           DEG2RAD(GeometricMeanLongitudeSun(T)),
           DEG2RAD(GeometricMeanAnomalySun(T))>>, LAMBDA q :
        With(<<Mul(q[1], q[1]), Sin(q[4])>>, LAMBDA r :
            LET y    == r[1]
                e    == q[2]
                l0   == q[3]
                l0x2 == l0 + l0
                l0x4 == l0x2 + l0x2
                m    == q[4]
                sinm == r[2]
                mx2  == m + m
                ex2  == e + e
                eRad == 1000 * Mul(y, Sin(l0x2))
                        - Mul(ex2, sinm)
                        + 2 * Mul(Mul(Mul(ex2, y), sinm), Cos(l0x2))
                        - CDiv(1000 * Mul(Mul(y, y), Sin(l0x4)), 2)
                        - CDiv(5 * Mul(CDiv(MulK(e, e, 10^4), 10), Sin(mx2)), 4)
            IN  DEG2MIN(RAD2DEG(CDiv(eRad, 1000)))))

EquationOfTime(T) == With(T, LAMBDA t : IF IsNaN(t) THEN NaN ELSE EquationOfTimeV(t))

(***************************************************************************)
(* Hour-angle solver (sunrise_sunset.c:288-328)                            *)
(***************************************************************************)
\* lines 294-295: the cosine of the hour angle
CosHourAngleV(latitudeRad, declinationRad, angleRad) ==
    IF IsNaN(latitudeRad) \/ IsNaN(declinationRad) \/ IsNaN(angleRad) THEN NaN
    ELSE Div(SinV(angleRad + HalfPi) - Mul(SinV(latitudeRad), SinV(declinationRad)),
             Mul(SinV(latitudeRad + HalfPi), SinV(declinationRad + HalfPi)))

CosHourAngle(latitudeRad, declinationRad, angleRad) ==
    With(<<latitudeRad, declinationRad, angleRad>>, LAMBDA p :
        CosHourAngleV(p[1], p[2], p[3]))

\* lines 296-300 with the range check compiled in, as a clamp of cosHA
LocalHourAngleSunRadClamped(latitudeRad, declinationRad, angleRad) ==
    With(CosHourAngle(latitudeRad, declinationRad, angleRad), LAMBDA cosHA :
        IF IsNaN(cosHA) THEN NaN
        ELSE IF cosHA < -One THEN AcosV(-One)
        ELSE IF cosHA > One THEN AcosV(One)
        ELSE AcosV(cosHA))

\* line 300: acos(cosHA), the range check of lines 296-298 being compiled out
LocalHourAngleSunRad(latitudeRad, declinationRad, angleRad) ==
    Acos(CosHourAngle(latitudeRad, declinationRad, angleRad))

\* line 312 never negating
NegateNever(rise, hourAngle) == hourAngle

\* line 312: if (!rise) { hourAngle = -hourAngle; }
Negate(rise, hourAngle) ==
    With(hourAngle, LAMBDA h :
        IF IsNaN(h) THEN NaN ELSE IF rise = 0 THEN -h ELSE h)

\* line 314: 720.0 - (4.0 * RAD2DEG(hourAngle)) - equationOfTime, in 10^-4 min
EventMinutes(hourAngle, equationOfTime) ==
    With(<<hourAngle, equationOfTime>>, LAMBDA p :
        IF IsNaN(p[1]) \/ IsNaN(p[2]) THEN NaN
        ELSE 7200000 - DEG2MIN(RAD2DEG(p[1])) - p[2])

\* lines 303-315; the locals are returned with the result
UTCForSolarAngleAux(rise, jd, latitudeRad, angleRad) ==
    With(JulianCenturyFromJulianDay(jd), LAMBDA centuryTime :
    With(<<EquationOfTime(centuryTime), SunDeclinationRad(centuryTime)>>, LAMBDA q :
    With(Negate(rise, LocalHourAngleSunRad(latitudeRad, q[2], angleRad)),
         LAMBDA hourAngle :
        [jd |-> jd,
         centuryTime |-> centuryTime,
         equationOfTime |-> q[1],
         sunDeclinationRad |-> q[2],
         cosHA |-> CosHourAngle(latitudeRad, q[2], angleRad),
         hourAngle |-> hourAngle,
         minutes |-> EventMinutes(hourAngle, q[1])])))

\* line 325 without the shift: the second pass at the input jd
UnshiftedJd(jd, firstTime) == jd

\* line 325: jd + firstTime / MIN_PER_DAY (1440 min = 720 units of two minutes)
ShiftedJd(jd, firstTime) ==
    IF IsNaN(jd) \/ IsNaN(firstTime) THEN NaN
    ELSE jd + CDiv(firstTime, 2 * 10^4)

\* lines 317-328
UTCForSolarAngle(rise, jd, latitude, angle) ==
    With(<<DEG2RAD(latitude), DEG2RAD(angle)>>, LAMBDA p :
    With(UTCForSolarAngleAux(rise, jd, p[1], p[2]), LAMBDA firstTime :
        UTCForSolarAngleAux(rise, ShiftedJd(jd, firstTime.minutes), p[1], p[2]).minutes))

(***************************************************************************)
(* D2DMS (sunrise_sunset.c:377-387).  The argument is the double nearest   *)
(* to deg + ms/3600000 (deg whole degrees, 0 <= ms < 3600000 whole         *)
(* thousandths of an arc second).  With e its binary exponent, that double *)
(* is  deg + (ms - Residue / 2^(52-e)) / 3600000,  Residue being the       *)
(* signed remainder of ms * 2^(52-e) modulo 3600000: the model carries the *)
(* rounding error of the argument exactly, as an integer.                  *)
(***************************************************************************)
\* line 381: 3600 * 1000
MS_PER_DEGREE == 3600 * 1000

\* the largest e with 2^e <= n, n >= 1
RECURSIVE Log2(_)
Log2(n) == IF n < 2 THEN 0 ELSE 1 + Log2(n \div 2)

\* the binary exponent (negative) of ms / 3600000 < 1, ms >= 1
RECURSIVE ExponentBelowOne(_, _)
ExponentBelowOne(ms, e) ==
    IF ms >= MS_PER_DEGREE THEN e
    ELSE With(2 * ms, LAMBDA twice : ExponentBelowOne(twice, e - 1))

\* the binary exponent of the double deg + ms/3600000
Binade(deg, ms) == IF deg >= 1 THEN Log2(deg) ELSE ExponentBelowOne(ms, 0)

\* r * 2^s modulo 3600000, eight doublings at a time (256 * 3600000 < 2^31)
RECURSIVE Doubled(_, _)
Doubled(r, s) ==
    IF s = 0 THEN r
    ELSE IF s >= 8
    THEN With((256 * r) % MS_PER_DEGREE, LAMBDA next : Doubled(next, s - 8))
    ELSE With((2 * r) % MS_PER_DEGREE, LAMBDA next : Doubled(next, s - 1))

\* the rounding of the argument to 53 bits: no tie can occur, 2^7 dividing
\* ms * 2^(52-e) and 3600000 but not 1800000
Residue(deg, ms) ==
    With(Doubled(ms, 52 - Binade(deg, ms)), LAMBDA r :
        IF 2 * r < MS_PER_DEGREE THEN r ELSE r - MS_PER_DEGREE)

\* the power of two that half an ulp just below ms is, counted in the unit
\* 2^-(52-e) of the residue
HalfUlp(deg, ms) ==
    Log2(ms) - Binade(deg, ms) - 1 - (IF ms = 2^Log2(ms) THEN 1 ELSE 0)

\* lines 380-382: fraction = degreesFrac - *degrees is exact; fraction * 3600000
\* is ms - Residue / 2^(52-e) rounded to 53 bits; (long) truncates
MilliSeconds(deg, ms) ==
    IF ms = 0 THEN 0
    ELSE With(<<Residue(deg, ms), HalfUlp(deg, ms)>>, LAMBDA p :
             IF p[1] <= 0 \/ (p[2] >= 0 /\ p[1] <= 2^p[2]) THEN ms ELSE ms - 1)

\* lines 377-387; the sign is applied last, every step being odd in its argument
D2DMS(sign, deg, ms) ==
    With(MilliSeconds(deg, ms), LAMBDA milliSeconds :
        LET minutes == milliSeconds \div (60 * 1000)
        IN  [degrees |-> sign * deg,
             minutes |-> sign * minutes,
             seconds |-> sign * (milliSeconds - minutes * 60 * 1000)])

(***************************************************************************)
(* The civil calendar the claims measure JulianDayEx against: Julian       *)
(* through 1582-10-04, Gregorian from 1582-10-15, counted day by day.      *)
(***************************************************************************)
EpochYear == -4712
MaxYear == 2001

\* the years walked day by day; the others are crossed a whole year at a time
WindowYears ==
    {EpochYear, -1000, -1, 0, 4, 333, 1500, 1581, 1582, 1583,
     1600, 1700, 1900, 1999, 2000}

CivilLeap(y) ==
    IF y <= GregorianYear THEN y % 4 = 0
    ELSE (y % 4 = 0 /\ y % 100 # 0) \/ y % 400 = 0

CivilDaysInMonth(y, m) ==
    IF m = 2 THEN (IF CivilLeap(y) THEN 29 ELSE 28)
    ELSE IF m \in {4, 6, 9, 11} THEN 30 ELSE 31

\* October 1582 lost the ten days 5..14
CivilMonthLength(y, m) ==
    IF y = GregorianYear /\ m = 10 THEN 21 ELSE CivilDaysInMonth(y, m)

CivilDaysInYear(y) ==
    IF y = GregorianYear THEN 355 ELSE IF CivilLeap(y) THEN 366 ELSE 365

\* the day after c
CivilSucc(c) ==
    IF c.y = GregorianYear /\ c.m = 10 /\ c.d = 4 THEN [y |-> c.y, m |-> 10, d |-> 15]
    ELSE IF c.d < CivilDaysInMonth(c.y, c.m) THEN [c EXCEPT !.d = c.d + 1]
    ELSE IF c.m < 12 THEN [y |-> c.y, m |-> c.m + 1, d |-> 1]
    ELSE [y |-> c.y + 1, m |-> 1, d |-> 1]

DayFrac2(c, h) == 2 * c.d + h

(***************************************************************************)
(* JulianDayTests (main.c:127-144): JulianDayEx applied to a date.         *)
(***************************************************************************)
NoRecord == [JulianDay |-> -1, b |-> 0, jd2 |-> 0]

NoDate == [y |-> 0, m |-> 0, d |-> 0]

NoPass ==
    [jd |-> 0, centuryTime |-> 0, equationOfTime |-> 0, sunDeclinationRad |-> 0,
     cosHA |-> 0, hourAngle |-> 0, minutes |-> 0]

NoEoc == [angles |-> <<0, 0, 0>>, c |-> 0]

\* the variables of the routines a run does not exercise
IdleJD ==
    /\ cal = NoDate /\ hf = 0 /\ elapsed = 0
    /\ jdr = NoRecord /\ prevCal = NoDate /\ prev = NoRecord

IdleN == binade = 0 /\ degIn = 0 /\ degrees = 0 /\ pcN = "idle" /\ iters = 0

IdleS ==
    /\ args = [jd |-> 0, latitude |-> 0, angle |-> 0] /\ pcS = "idle"
    /\ riseFirst = NoPass /\ riseSecond = NoPass /\ sunRise = 0
    /\ setFirst = NoPass /\ setSecond = NoPass /\ sunSet = 0

IdleE == eocIn = [T |-> 0, M |-> 0] /\ eoc = NoEoc

NoDms == [degrees |-> 0, minutes |-> 99, seconds |-> 0]

IdleD == dmsIn = [sign |-> 1, deg |-> 0, ms |-> 0] /\ dms = NoDms

NoDoy == [year |-> 0, month |-> 0, day2 |-> 0, n2 |-> 0]

IdleY == doyIn = NoDate /\ doy = NoDoy

InitJD ==
    /\ op = "JulianDay"
    /\ cal = [y |-> EpochYear, m |-> 1, d |-> 1]
    /\ hf \in {0, 1}
    /\ elapsed = 0
    /\ jdr = JulianDayEx(cal.y, cal.m, DayFrac2(cal, hf))
    /\ prevCal = NoDate
    /\ prev = NoRecord
    /\ IdleN /\ IdleS /\ IdleE /\ IdleD /\ IdleY

\* JulianDayEx on the date `c`, `days` days after cal
Convert(c, days) ==
    /\ c.y <= MaxYear
    /\ cal' = c
    /\ elapsed' = elapsed + days
    /\ jdr' = JulianDayEx(c.y, c.m, DayFrac2(c, hf))
    /\ prevCal' = cal
    /\ prev' = jdr
    /\ UNCHANGED <<op, hf, varsN, varsS, varsE, varsD, varsY>>

\* the next calendar day
NextDay ==
    /\ op = "JulianDay"
    /\ cal.y \in WindowYears
    /\ Convert(CivilSucc(cal), 1)

\* from the first of a month to the first of the next
NextMonth ==
    /\ op = "JulianDay"
    /\ cal.d = 1
    /\ Convert(IF cal.m < 12 THEN [cal EXCEPT !.m = cal.m + 1]
                              ELSE [y |-> cal.y + 1, m |-> 1, d |-> 1],
               CivilMonthLength(cal.y, cal.m))

\* from one January 1 to the next
NextYear ==
    /\ op = "JulianDay"
    /\ cal.m = 1 /\ cal.d = 1
    /\ Convert([cal EXCEPT !.y = cal.y + 1], CivilDaysInYear(cal.y))

NextJD == NextDay \/ NextMonth \/ NextYear

SpecJD == InitJD /\ [][NextJD]_vars

(***************************************************************************)
(* NormalizeDegrees (sunrise_sunset.c:118-129), one loop iteration a step. *)
(***************************************************************************)
MaxTurns == 3

\* the iterations followed on a large argument
MaxIters == 4

\* the exponents of the large arguments: spacings of 256 to 2048 degrees
BigBinades == 8 .. 11

\* their offsets, far enough from the power of two for MaxIters iterations
BigOffsets == (MaxIters + 1) .. (2 * MaxIters)

InitN ==
    /\ op = "NormalizeDegrees"
    /\ \/ /\ binade = 0
          /\ degIn \in QuarterDeg(-360 * MaxTurns) .. QuarterDeg(360 * MaxTurns)
       \/ /\ binade \in BigBinades
          /\ \E k \in BigOffsets : degIn \in {k, -k}
    /\ degrees = degIn
    /\ pcN = "while1"
    /\ iters = 0
    /\ IdleJD /\ IdleS /\ IdleE /\ IdleD /\ IdleY

\* lines 120-123
While1 ==
    /\ op = "NormalizeDegrees" /\ pcN = "while1"
    /\ IF AboveTurnAt(degrees, binade)
       THEN /\ binade = 0 \/ iters < MaxIters
            /\ degrees' = Minus360(degrees, binade)
            /\ iters' = iters + 1
            /\ pcN' = "while1"
       ELSE /\ pcN' = "while2"
            /\ UNCHANGED <<degrees, iters>>
    /\ UNCHANGED <<op, binade, degIn, varsJD, varsS, varsE, varsD, varsY>>

\* lines 124-128
While2 ==
    /\ op = "NormalizeDegrees" /\ pcN = "while2"
    /\ IF BelowZeroAt(degrees, binade)
       THEN /\ binade = 0 \/ iters < MaxIters
            /\ degrees' = Plus360(degrees, binade)
            /\ iters' = iters + 1
            /\ pcN' = "while2"
       ELSE /\ pcN' = "return"
            /\ UNCHANGED <<degrees, iters>>
    /\ UNCHANGED <<op, binade, degIn, varsJD, varsS, varsE, varsD, varsY>>

NextN == While1 \/ While2

SpecN == InitN /\ [][NextN]_vars

(***************************************************************************)
(* SunRiseTest (main.c:211-242, 245-267): for one date, latitude and       *)
(* zenith angle, UTCForSolarAngle for the rise side, then for the set      *)
(* side; each call is two UTCForSolarAngleAux passes.                      *)
(***************************************************************************)
\* main.c:247-262: the dates of SunRiseTests (dayFrac in half days)
TestDates ==
    {<<1994, 5, 16>>, <<1994, 12, 18>>, <<1994, 12, 20>>, <<1994, 12, 21>>,
     <<2012, 1, 4>>, <<2012, 11, 42>>}

\* main.c:73-106, in whole degrees
kLatitudes ==
    {72, 70, 68, 66, 64, 62, 60, 58, 56, 54, 52, 50, 45, 40, 35, 30, 20, 10, 0,
     -10, -20, -30, -35, -40, -45, -50, -52, -54, -56, -58, -60}

\* sunrise_sunset.c:43-46, in 10^-5 deg
kRiseOrSet == 9083300
kCivilTwilight == 9600000
kNauticalTwilight == 10200000
kAstronomicalTwilight == 10800000

ZenithAngles == {kRiseOrSet, kCivilTwilight, kNauticalTwilight, kAstronomicalTwilight}

\* a Julian Day of JulianDayEx (half days) in the solver's unit
JdOf(t) == JulianDayEx(t[1], t[2], t[3]).jd2 * (JdUnit \div 2)

InitS ==
    /\ op = "SunRiseTest"
    /\ \E t \in TestDates, lat \in kLatitudes, z \in ZenithAngles :
           args = [jd |-> JdOf(t), latitude |-> lat * 10^5, angle |-> z]
    /\ pcS = "rise1"
    /\ riseFirst = NoPass /\ riseSecond = NoPass /\ sunRise = 0
    /\ setFirst = NoPass /\ setSecond = NoPass /\ sunSet = 0
    /\ IdleJD /\ IdleN /\ IdleE /\ IdleD /\ IdleY

\* line 327 returning the first approximation instead
ReturnedFirst(firstTime, secondTime) == firstTime

\* line 327: return secondTime
Returned(firstTime, secondTime) == secondTime

\* lines 321-324: the first call of UTCForSolarAngleAux
FirstPass(rise) ==
    UTCForSolarAngleAux(rise, args.jd, DEG2RAD(args.latitude), DEG2RAD(args.angle))

\* lines 325-326: the second call
SecondPass(rise, first) ==
    UTCForSolarAngleAux(rise, ShiftedJd(args.jd, first.minutes),
                        DEG2RAD(args.latitude), DEG2RAD(args.angle))

RiseFirstPass ==
    /\ op = "SunRiseTest" /\ pcS = "rise1"
    /\ riseFirst' = FirstPass(1)
    /\ pcS' = "rise2"
    /\ UNCHANGED <<op, args, riseSecond, sunRise, setFirst, setSecond, sunSet,
                   varsJD, varsN, varsE, varsD, varsY>>

RiseSecondPass ==
    /\ op = "SunRiseTest" /\ pcS = "rise2"
    /\ riseSecond' = SecondPass(1, riseFirst)
    /\ sunRise' = Returned(riseFirst.minutes, riseSecond'.minutes)
    /\ pcS' = "set1"
    /\ UNCHANGED <<op, args, riseFirst, setFirst, setSecond, sunSet,
                   varsJD, varsN, varsE, varsD, varsY>>

SetFirstPass ==
    /\ op = "SunRiseTest" /\ pcS = "set1"
    /\ setFirst' = FirstPass(0)
    /\ pcS' = "set2"
    /\ UNCHANGED <<op, args, riseFirst, riseSecond, sunRise, setSecond, sunSet,
                   varsJD, varsN, varsE, varsD, varsY>>

SetSecondPass ==
    /\ op = "SunRiseTest" /\ pcS = "set2"
    /\ setSecond' = SecondPass(0, setFirst)
    /\ sunSet' = Returned(setFirst.minutes, setSecond'.minutes)
    /\ pcS' = "done"
    /\ UNCHANGED <<op, args, riseFirst, riseSecond, sunRise, setFirst,
                   varsJD, varsN, varsE, varsD, varsY>>

NextS == RiseFirstPass \/ RiseSecondPass \/ SetFirstPass \/ SetSecondPass

SpecS == InitS /\ [][NextS]_vars

(***************************************************************************)
(* Equation of center (sunrise_sunset.c:153-174) for a century time and a  *)
(* mean anomaly: the general form, then the convenience form.              *)
(***************************************************************************)
\* whole-degree mean anomalies, every MeanAnomalyStep degrees
MeanAnomalyStep == 3

InitE ==
    /\ op = "EquationOfCenter"
    /\ \E t \in TestDates, k \in 0 .. (360 \div MeanAnomalyStep) :
           eocIn = [T |-> JulianCenturyFromJulianDay(JdOf(t)),
                    M |-> k * MeanAnomalyStep * 10^5]
    /\ eoc = NoEoc
    /\ IdleJD /\ IdleN /\ IdleS /\ IdleD /\ IdleY

\* EquationOfCenterSunEx(centuryTime, meanAnomalySun)
CallEquationOfCenterSunEx ==
    /\ op = "EquationOfCenter" /\ eoc = NoEoc
    /\ eoc' = EquationOfCenterSunEx(eocIn.T, eocIn.M)
    /\ UNCHANGED <<op, eocIn, varsJD, varsN, varsS, varsD, varsY>>

\* EquationOfCenterSun(centuryTime): the mean anomaly recomputed from T
CallEquationOfCenterSun ==
    /\ op = "EquationOfCenter" /\ eoc = NoEoc
    /\ eocIn' = [eocIn EXCEPT !.M = GeometricMeanAnomalySun(eocIn.T)]
    /\ eoc' = EquationOfCenterSun(eocIn.T)
    /\ UNCHANGED <<op, varsJD, varsN, varsS, varsD, varsY>>

NextE == CallEquationOfCenterSunEx \/ CallEquationOfCenterSun

SpecE == InitE /\ [][NextE]_vars

(***************************************************************************)
(* D2DMSTest (main.c:148-156): D2DMS on a decimal number of degrees with   *)
(* three decimals, as 121.135 there.                                       *)
(***************************************************************************)
DmsDegrees == {0, 1, 2, 59, 121, 359}

MaxThousandth == 999

InitD ==
    /\ op = "D2DMS"
    /\ \E sign \in {1, -1}, deg \in DmsDegrees, k \in 0 .. MaxThousandth :
           dmsIn = [sign |-> sign, deg |-> deg, ms |-> (3600 * k) % MS_PER_DEGREE]
    /\ dms = NoDms
    /\ IdleJD /\ IdleN /\ IdleS /\ IdleE /\ IdleY

CallD2DMS ==
    /\ op = "D2DMS" /\ dms = NoDms
    /\ dms' = D2DMS(dmsIn.sign, dmsIn.deg, dmsIn.ms)
    /\ UNCHANGED <<op, dmsIn, varsJD, varsN, varsS, varsE, varsY>>

NextD == CallD2DMS

SpecD == InitD /\ [][NextD]_vars

(***************************************************************************)
(* DayOfYearFromJulianDay applied to JulianDayEx of a calendar date with a *)
(* whole day number.                                                       *)
(***************************************************************************)
\* years before, at and after the reform: leap and common in either calendar
DoyYears ==
    {EpochYear, -1001, -1000, -100, -4, -1, 0, 1, 4, 100, 900, 1400, 1500,
     1581, 1582, 1583, 1600, 1700, 1900, 1999, 2000}

\* the dates the calendar has: October 5 to 14 of 1582 never were
ValidDate(y, m, d) ==
    /\ m \in 1 .. 12
    /\ d \in 1 .. CivilDaysInMonth(y, m)
    /\ ~(y = GregorianYear /\ m = 10 /\ d \in 5 .. 14)

InitY ==
    /\ op = "DayOfYear"
    /\ \E y \in DoyYears, m \in 1 .. 12, d \in 1 .. 31 :
           /\ ValidDate(y, m, d)
           /\ doyIn = [y |-> y, m |-> m, d |-> d]
    /\ doy = NoDoy
    /\ IdleJD /\ IdleN /\ IdleS /\ IdleE /\ IdleD

\* DayOfYearFromJulianDay(JulianDayEx(y, m, d))
CallDayOfYearFromJulianDay ==
    /\ op = "DayOfYear" /\ doy = NoDoy
    /\ doy' = DayOfYearFromJulianDay(JulianDayEx(doyIn.y, doyIn.m, 2 * doyIn.d).jd2)
    /\ UNCHANGED <<op, doyIn, varsJD, varsN, varsS, varsE, varsD>>

NextY == CallDayOfYearFromJulianDay

SpecY == InitY /\ [][NextY]_vars

(***************************************************************************)
(* Claims about JulianDayEx, checked under SpecJD                          *)
(***************************************************************************)
\* the calendar the stated rule selects (1: Julian, 0: Gregorian)
RuleFlag(y, m, dayFrac2) ==
    IF y > 1582 \/ (y = 1582 /\ ~(m < 10 \/ (m = 10 /\ dayFrac2 < 2 * 15)))
    THEN 0 ELSE 1

RuleB(y, m, dayFrac2) ==
    LET y1 == IF m <= 2 THEN y - 1 ELSE y
        a  == y1 \div 100
    IN  IF RuleFlag(y, m, dayFrac2) = 1 THEN 0 ELSE 2 - a + (a \div 4)

\* C1: JulianDayEx selects Gregorian (b = 2 - a + floor(a/4)) when y > 1582, or when
\* y = 1582 unless m < 10 or (m = 10 and dayFrac < 15.0), and Julian (b = 0)
\* otherwise; so all of November and December 1582 is Gregorian.
C1_CalendarRule ==
    op = "JulianDay" =>
        /\ jdr.JulianDay = RuleFlag(cal.y, cal.m, DayFrac2(cal, hf))
        /\ jdr.b = RuleB(cal.y, cal.m, DayFrac2(cal, hf))

\* the Julian Day, in half days, of the date `elapsed` days after -4712-01-01
\* (JD 0.0 is -4712-01-01 12:00, dayFrac 1.5)
TrueJD2 == 2 * elapsed + hf - 1

\* C2: for every valid date whose year is not 1582, JulianDayEx equals the count
\* of days elapsed since -4712-01-01 12:00 obtained by counting calendar days;
\* in particular 2451545.0 for (2000,1,1.5), 2451179.5 for (1999,1,1.0),
\* 2305447.5 for (1600,1,1.0), 1842713.0 for (333,1,27.5), 1356001.0 for
\* (-1000,7,12.5) and 0.0 for (-4712,1,1.5).
C2_TrueDayCount ==
    (op = "JulianDay" /\ cal.y # 1582) =>
        /\ jdr.jd2 = TrueJD2
        /\ (cal = [y |-> 2000, m |-> 1, d |-> 1] /\ hf = 1) => jdr.jd2 = 2 * 2451545
        /\ (cal = [y |-> 1999, m |-> 1, d |-> 1] /\ hf = 0) => jdr.jd2 = 2 * 2451179 + 1
        /\ (cal = [y |-> 1600, m |-> 1, d |-> 1] /\ hf = 0) => jdr.jd2 = 2 * 2305447 + 1
        /\ (cal = [y |-> 333, m |-> 1, d |-> 27] /\ hf = 1) => jdr.jd2 = 2 * 1842713
        /\ (cal = [y |-> -1000, m |-> 7, d |-> 12] /\ hf = 1) => jdr.jd2 = 2 * 1356001
        /\ (cal = [y |-> -4712, m |-> 1, d |-> 1] /\ hf = 1) => jdr.jd2 = 0

\* a leap-day date after the January/February shift, converted at noon
C2_Witness ==
    /\ op = "JulianDay"
    /\ cal = [y |-> 2000, m |-> 2, d |-> 29] /\ hf = 1
    /\ jdr.jd2 = 2 * 2451604

\* C3: the Julian Day is monotonic in calendar date: an earlier date has a
\* smaller JulianDayEx, also across every month boundary of 1582.
C3_Monotonic ==
    (op = "JulianDay" /\ prev # NoRecord) => prev.jd2 < jdr.jd2

\* C4: at the cutover 1582-10-04 uses b = 0 and 1582-10-15 uses b = -10, and
\* JulianDayEx(1582,10,15.0) - JulianDayEx(1582,10,4.0) = 1: eleven day numbers
\* apart, one real day apart.
C4_Cutover ==
    (/\ op = "JulianDay"
     /\ cal = [y |-> 1582, m |-> 10, d |-> 15]
     /\ prevCal = [y |-> 1582, m |-> 10, d |-> 4]) =>
        /\ prev.JulianDay = 1 /\ prev.b = 0
        /\ jdr.JulianDay = 0 /\ jdr.b = 2 - 15 + (15 \div 4) /\ jdr.b = -10
        /\ jdr.jd2 - prev.jd2 = 2
        /\ DayFrac2(cal, hf) - DayFrac2(prevCal, hf) = 2 * 11

C4_Witness ==
    /\ op = "JulianDay"
    /\ cal = [y |-> 1582, m |-> 10, d |-> 15] /\ hf = 0
    /\ prevCal = [y |-> 1582, m |-> 10, d |-> 4]
    /\ jdr.jd2 = 2 * 2299160 + 1
    /\ prev.jd2 = 2 * 2299159 + 1

(***************************************************************************)
(* Claims about NormalizeDegrees, checked under SpecN                      *)
(***************************************************************************)
\* C5: for every finite x (360.0, 720.0 and negative values included)
\* NormalizeDegrees(x) returns r with 0 <= r < 360, 360 itself never being
\* returned, and r differs from x by a whole multiple of 360.
C5_HalfOpenRange ==
    pcN = "return" /\ binade = 0 =>
        /\ 0 <= degrees /\ degrees < QuarterDeg(360)
        /\ (degrees - degIn) % QuarterDeg(360) = 0

\* ceil(|x| / 360) for a small argument x
TurnsCeiling(x) == (Abs(x) + QuarterDeg(360) - 1) \div QuarterDeg(360)

\* C12: NormalizeDegrees terminates for every finite input: each iteration
\* of the first loop lowers the value and each iteration of the second
\* raises it, without pushing it back above 360, and there are at most
\* ceil(|x|/360) iterations (for a large argument that number is beyond
\* 2^51, above any count followed here).
C12_StrictProgress ==
    [][/\ (pcN = "while1" /\ pcN' = "while1") => degrees' < degrees
       /\ (pcN = "while2" /\ pcN' = "while2") =>
              degrees' > degrees /\ ~AboveTurnAt(degrees', binade')
       /\ binade = 0 => iters' <= TurnsCeiling(degIn)]_vars

(***************************************************************************)
(* Claims about UTCForSolarAngle, checked under SpecS                      *)
(***************************************************************************)
\* the hour-angle cosine has no arc cosine
Outside(cosHA) == cosHA < -One \/ cosHA > One

\* 4.0 * RAD2DEG(H), in 10^-4 min
HourAngleMinutes(hourAngle) == DEG2MIN(RAD2DEG(hourAngle))

BothFirstFinite == ~IsNaN(riseFirst.minutes) /\ ~IsNaN(setFirst.minutes)

BothFinite == ~IsNaN(sunRise) /\ ~IsNaN(sunSet)

\* C6 as stated: for the same jd, latitude and zenith angle the rise call and
\* the set call of UTCForSolarAngle are NaN together, never one NaN and the
\* other finite.
C6_NaNTogether ==
    pcS = "done" => (IsNaN(sunRise) <=> IsNaN(sunSet))

\* C6 amended: the first passes of the two calls, both at the input jd, are
\* NaN together, and then both calls return NaN; when the first passes are
\* finite each call is NaN exactly when its own second-pass cosine is outside
\* [-1, 1], so the two results are NaN together exactly when the two
\* second-pass cosines are outside together.
C6_NaNTogetherFirstPass ==
    pcS = "done" =>
        /\ IsNaN(riseFirst.minutes) <=> IsNaN(setFirst.minutes)
        /\ IsNaN(riseFirst.minutes) => IsNaN(sunRise) /\ IsNaN(sunSet)
        /\ BothFirstFinite =>
               ((IsNaN(sunRise) <=> IsNaN(sunSet))
                   <=> (Outside(riseSecond.cosHA) <=> Outside(setSecond.cosHA)))

\* a rise time without a set time, and a date without either
C6_Witness ==
    /\ pcS = "done"
    /\ BothFirstFinite
    /\ ~IsNaN(sunRise) /\ IsNaN(sunSet)
    /\ args.latitude = 72 * 10^5 /\ args.angle = kRiseOrSet

\* C7 as stated: with both results finite there is one hour angle H >= 0 and
\* one equation of time E with rise = 720 - 4H - E and set = 720 + 4H - E, so
\* set - rise = 8H, rise <= set, and the two are symmetric about 720 - E.
C7_OneHourAngle ==
    pcS = "done" /\ BothFinite =>
        /\ riseSecond.hourAngle >= 0
        /\ setSecond.hourAngle = -riseSecond.hourAngle
        /\ setSecond.equationOfTime = riseSecond.equationOfTime
        /\ sunRise = 7200000 - HourAngleMinutes(riseSecond.hourAngle)
                             - riseSecond.equationOfTime
        /\ sunSet = 7200000 + HourAngleMinutes(riseSecond.hourAngle)
                            - riseSecond.equationOfTime
        /\ sunSet - sunRise = 2 * HourAngleMinutes(riseSecond.hourAngle)
        /\ sunRise <= sunSet

\* C7 amended: the first passes of the two calls share one hour angle H >= 0
\* and one equation of time E, with 720 - 4H - E on the rise side and
\* 720 + 4H - E on the set side; each returned value has that form with the
\* hour angle and the equation of time of its own second pass (Hr, Er for
\* rise, Hs, Es for set, both hour angles >= 0), and rise <= set.
C7_OwnHourAngle ==
    pcS = "done" /\ BothFinite =>
        /\ riseFirst.hourAngle >= 0
        /\ setFirst.hourAngle = -riseFirst.hourAngle
        /\ setFirst.equationOfTime = riseFirst.equationOfTime
        /\ riseFirst.minutes = 7200000 - HourAngleMinutes(riseFirst.hourAngle)
                                       - riseFirst.equationOfTime
        /\ setFirst.minutes = 7200000 + HourAngleMinutes(riseFirst.hourAngle)
                                      - riseFirst.equationOfTime
        /\ riseSecond.hourAngle >= 0 /\ setSecond.hourAngle <= 0
        /\ sunRise = 7200000 - HourAngleMinutes(riseSecond.hourAngle)
                             - riseSecond.equationOfTime
        /\ sunSet = 7200000 + HourAngleMinutes(-setSecond.hourAngle)
                            - setSecond.equationOfTime
        /\ sunRise <= sunSet

\* both results finite, the two second passes at different instants
C7_Witness ==
    /\ pcS = "done" /\ BothFinite
    /\ riseSecond.jd # setSecond.jd
    /\ riseSecond.hourAngle # -setSecond.hourAngle
    /\ sunRise < sunSet

\* one call of UTCForSolarAngle: NaN exactly when the first-pass cosine, or
\* else the second-pass cosine, is outside [-1, 1]; the second pass is taken
\* at jd + firstTime / 1440 and its value is the one returned
SolvedAsStated(first, second, result) ==
    /\ first.jd = args.jd
    /\ IsNaN(first.minutes) <=> Outside(first.cosHA)
    /\ IsNaN(result) <=>
           (Outside(first.cosHA) \/ (~Outside(first.cosHA) /\ Outside(second.cosHA)))
    /\ IsNaN(first.minutes) => IsNaN(result)
    /\ ~IsNaN(first.minutes) =>
           /\ second.jd = args.jd + CDiv(first.minutes, 2 * 10^4)
           /\ result = second.minutes

\* C8: for finite jd, a latitude strictly between -90 and 90 and any zenith
\* angle, UTCForSolarAngle returns NaN exactly when the hour-angle cosine is
\* outside [-1, 1] in the first pass (declination at jd) or in the second
\* (declination at jd + firstPassMinutes/1440); a NaN first pass yields NaN,
\* and otherwise the result is the value of the second pass.
C8_NaNExactly ==
    /\ pcS \in {"set1", "set2", "done"} => SolvedAsStated(riseFirst, riseSecond, sunRise)
    /\ pcS = "done" => SolvedAsStated(setFirst, setSecond, sunSet)

\* a finite first pass whose second pass has no solution, a finite result
\* that is not the first-pass value, and a NaN first pass
C8_Witness ==
    /\ pcS = "done"
    /\ ~IsNaN(setFirst.minutes) /\ IsNaN(sunSet)
    /\ ~IsNaN(sunRise) /\ sunRise # riseFirst.minutes

(***************************************************************************)
(* Claims about D2DMS, checked under SpecD                                 *)
(***************************************************************************)
\* C9: for x a whole number of thousandths of an arc second D2DMS(x) returns
\* degrees = x truncated toward zero, |minutes| <= 59 and |seconds| < 60 with
\* degrees*3600000 + minutes*60000 + seconds*1000 = x*3600000 exactly; and
\* D2DMS(121.135) = (121, 8, 6.0).
C9_ExactMilliseconds ==
    dms # NoDms =>
        /\ dms.degrees = dmsIn.sign * dmsIn.deg
        /\ Abs(dms.minutes) <= 59 /\ Abs(dms.seconds) < 60 * 1000
        /\ dms.minutes * 60 * 1000 + dms.seconds = dmsIn.sign * dmsIn.ms
        /\ dmsIn = [sign |-> 1, deg |-> 121, ms |-> 135 * 3600]
               => dms = [degrees |-> 121, minutes |-> 8, seconds |-> 6000]

(***************************************************************************)
(* Claims about the equation of center, checked under SpecE                *)
(***************************************************************************)
\* C10: EquationOfCenterSunEx(T, M) takes its three sines at exactly M, 2M and
\* 3M, M the mean anomaly in radians - the third at three times the mean
\* anomaly and no other multiple - and EquationOfCenterSun(T) equals
\* EquationOfCenterSunEx(T, GeometricMeanAnomalySun(T)).
C10_SineAngles ==
    eoc # NoEoc =>
        /\ eoc.angles[1] = DEG2RAD(eocIn.M)
        /\ eoc.angles[2] = 2 * eoc.angles[1]
        /\ eoc.angles[3] = 3 * eoc.angles[1]
        /\ eoc = EquationOfCenterSunEx(eocIn.T, eocIn.M)

(***************************************************************************)
(* Claims about DayOfYearFromJulianDay, checked under SpecY                *)
(***************************************************************************)
\* the number of the date within its year: the days of the months before
\* it, in the calendar in force, and the day of the month
RECURSIVE DaysBeforeMonth(_, _)
DaysBeforeMonth(y, m) ==
    IF m = 1 THEN 0 ELSE DaysBeforeMonth(y, m - 1) + CivilDaysInMonth(y, m - 1)

Ordinal(y, m, d) == DaysBeforeMonth(y, m) + d

\* C11: for every valid calendar date (y, m, d) with a whole day d, Julian
\* before 1582-10-15 and Gregorian from then on,
\* DayOfYearFromJulianDay(JulianDayEx(y, m, d)) is the ordinal number of the
\* date within its year (1 for January 1, 365 or 366 for December 31), also
\* after February of the years that are leap in the Julian calendar but not
\* by the rule of IsLeapYear (1500, 1400, 900).
C11_DayOfYearInverse ==
    doy # NoDoy =>
        /\ doy.year = doyIn.y /\ doy.month = doyIn.m /\ doy.day2 = 2 * doyIn.d
        /\ doy.n2 = 2 * Ordinal(doyIn.y, doyIn.m, doyIn.d)

====
